---- MODULE Spec2Model ----
(***************************************************************************)
(* Model of the schema analyzer: the analyze command                       *)
(* (schema-analyzer.command.ts), AnalyzerService (analyzer.service.ts),    *)
(* DatabaseService (database.service.ts) and OutputService                 *)
(* (output.service.ts).                                                    *)
(*                                                                         *)
(* Table names are numbers.  The catalog lists the base tables of one      *)
(* schema, so the names of a table list are pairwise distinct; the i-th    *)
(* table of a list is named i (any list of distinct names is such a list   *)
(* up to renaming).  Name 0, and every name above the length of the list,  *)
(* is a table outside the analyzed schema.                                 *)
(***************************************************************************)
EXTENDS Integers, Sequences, FiniteSets, TLC

\* ---------------------------------------------------------------- bounds
\* tables in the schema; depends_on entries (foreign keys) of the whole
\* schema; calls of determineInsertionOrder on one list; operations called
\* on the DatabaseService
MaxTables == 2
MaxEdges == 2
MaxRuns == 2
MaxOps == 2

\* columns of a table
MaxCols == 2

\* ---------------------------------------------------------------- state
VARIABLES
    \* --- determineInsertionOrder (analyzer.service.ts 93-125)
    tables,      \* the Table[] argument / the list analyze got from getTables
    visited,     \* Set<string> visited
    visiting,    \* Set<string> visiting
    order,       \* string[] order
    stack,       \* the recursion stack of visit: frames [name, di]
    ti,          \* position of tables.forEach
    rstatus,     \* "idle" | "running" | "returned" | "thrown"
    errName,     \* the table named by the thrown Error
    runs,        \* number of calls of determineInsertionOrder so far
    callInput,   \* the argument as it was when the current call started
    prevInput,   \* the argument of the call before
    prevOutcome, \* outcome of the previous call
    \* --- DatabaseService (database.service.ts)
    pool,        \* this.pool has been created by connect
    dop,         \* the operation in progress: "none" | "connect" | "getTables" | "enhanced"
    dpc,         \* its position: "acquire" | "select1" | "list" | "join" | "idle"
    clients,     \* one entry per client pool.connect() gave out: its release() count
    q,           \* the queries of the current Promise.all: kind -> status
    firstFail,   \* the first query of the current Promise.all that rejected
    listing,     \* number of rows of GET_TABLES
    result,      \* const result: Table[] of getTables
    dret,        \* how the last operation ended: "none" | "ok" | "err"
    derr,        \* the error it rejected with
    queryCount,  \* number of client.query calls so far
    ops,         \* number of operations a client of the service has called
    \* --- the analyze command (schema-analyzer.command.ts, analyzer.service.ts)
    pc,          \* position of run / analyze
    llmtxt,      \* options.llmtxt
    cfgOk,       \* parseConfig accepts the options
    files,       \* the files fs.promises.writeFile has written
    runStatus,   \* "running" | "ok" | "failed" (process.exit(1))
    analyzeRet,  \* what analyze gave its caller
    insertionOrder, \* const insertionOrder of analyze
    core,        \* the lines of the digest's "## Core Tables" section
    \* --- one table's columns (database.service.ts mapColumns, the guide)
    cpc,         \* "rows" | "mapped" | "listed" | "idle"
    colRows,     \* columns.rows of GET_COLUMNS
    columns,     \* Column[] of the Table
    required     \* the lines under "Required columns:" of the guide

rvars == <<tables, visited, visiting, order, stack, ti, rstatus, errName,
           runs, callInput, prevInput, prevOutcome>>

dvars == <<pool, dop, dpc, clients, q, firstFail, listing, result,
           dret, derr, queryCount, ops>>

pvars == <<pc, llmtxt, cfgOk, files, runStatus, analyzeRet, insertionOrder>>

ovars == <<core, cpc, colRows, columns, required>>

vars == <<rvars, dvars, pvars, ovars>>

\* ---------------------------------------------------------------- data
NoName == -1
Names == 0..MaxTables
\* the depends_on lists of at most e entries
DepLists(e) == UNION {[1..k -> Names] : k \in 0..e}

\* Table (types/schema-analyzer.types.ts): the fields the resolver reads.
Table(n, deps) == [name |-> n, depends_on |-> deps]

\* the number of depends_on entries of a table list
RECURSIVE EdgeCount(_)
EdgeCount(tbls) ==
    IF tbls = <<>> THEN 0
    ELSE Len(tbls[Len(tbls)].depends_on) + EdgeCount(SubSeq(tbls, 1, Len(tbls) - 1))

\* the lists of n tables with at most e depends_on entries in all
RECURSIVE ListsOf(_, _)
ListsOf(n, e) ==
    IF n = 0 THEN {<<>>}
    ELSE UNION {{Append(l, Table(n, d)) : l \in ListsOf(n - 1, e - k),
                                          d \in [1..k -> Names]}
                : k \in 0..e}

TableLists == UNION {ListsOf(n, MaxEdges) : n \in 0..MaxTables}

Range(s) == {s[i] : i \in 1..Len(s)}
TableNames(tbls) == {tbls[i].name : i \in 1..Len(tbls)}

\* tables.find((t) => t.name === tableName): index of the first match, 0 if none
FindIndex(tbls, tableName) ==
    IF \E i \in 1..Len(tbls) : tbls[i].name = tableName
    THEN CHOOSE i \in 1..Len(tbls) :
            /\ tbls[i].name = tableName
            /\ \A j \in 1..(i - 1) : tbls[j].name # tableName
    ELSE 0

\* the depends_on list visit iterates for tableName: none when find fails
DepsOf(tbls, tableName) ==
    IF FindIndex(tbls, tableName) = 0 THEN <<>>
    ELSE tbls[FindIndex(tbls, tableName)].depends_on

\* ---------------------------------------------------------------- resolver
\* if (visited.has(tableName)) return;
AlreadyDoneNever(tableName) == FALSE

AlreadyDoneOrVisiting(tableName) == tableName \in visited \cup visiting
AlreadyDone(tableName) == tableName \in visited

InProgressOrUnknown(tableName) ==
    tableName \in visiting \/ tableName \notin TableNames(tables)

\* if (visiting.has(tableName)) throw ...
InProgress(tableName) == tableName \in visiting

\* the name put in the message of the thrown Error
ThrownNameParent(tableName, stk) ==
    IF stk = <<>> THEN tableName ELSE stk[Len(stk)].name
ThrownName(tableName, stk) == tableName

\* for (const dep of table.depends_on): is there a next dep for the frame
MoreDepsOffByOne(frame) == frame.di < Len(DepsOf(tables, frame.name))
MoreDeps(frame) == frame.di <= Len(DepsOf(tables, frame.name))

\* new Set() / [] at the start of every call
FreshVisitedKept(old) == old
FreshVisited(old) == {}

Top == stack[Len(stack)]
Pop(stk) == SubSeq(stk, 1, Len(stk) - 1)

\* visit(tableName), up to the first recursive call; callerStack is the
\* caller's stack once its own loop index has advanced
Visit(tableName, callerStack) ==
    IF AlreadyDone(tableName)
    THEN /\ stack' = callerStack
         /\ UNCHANGED <<visiting, rstatus, errName>>
    ELSE IF InProgress(tableName)
    THEN /\ rstatus' = "thrown"
         /\ errName' = ThrownName(tableName, stack)
         /\ UNCHANGED <<visiting, stack>>
    ELSE /\ visiting' = visiting \cup {tableName}
         /\ stack' = Append(callerStack, [name |-> tableName, di |-> 1])
         /\ UNCHANGED <<rstatus, errName>>

\* tables.forEach((table) => { if (!visited.has(table.name)) visit(table.name) })
ForEachStep ==
    /\ rstatus = "running"
    /\ stack = <<>>
    /\ ti <= Len(tables)
    /\ ti' = ti + 1
    /\ IF tables[ti].name \notin visited
       THEN Visit(tables[ti].name, <<>>)
       ELSE UNCHANGED <<visiting, stack, rstatus, errName>>
    /\ UNCHANGED <<tables, visited, order, runs, callInput, prevInput, prevOutcome>>
    /\ UNCHANGED <<dvars, pvars>>
    /\ UNCHANGED ovars

NextDepAgain(di) == di

\* for (const dep of table.depends_on): the loop moves on to the next entry
NextDep(di) == di + 1

\* one iteration of the loop over table.depends_on: visit(dep)
DepStep ==
    /\ rstatus = "running"
    /\ stack # <<>>
    /\ MoreDeps(Top)
    /\ Visit(DepsOf(tables, Top.name)[Top.di],
             [stack EXCEPT ![Len(stack)].di = NextDep(@)])
    /\ UNCHANGED <<tables, visited, order, ti, runs, callInput, prevInput, prevOutcome>>
    /\ UNCHANGED <<dvars, pvars>>
    /\ UNCHANGED ovars

VisitingKept(inProgress, tableName) == inProgress

\* visiting.delete(tableName)
VisitingDelete(inProgress, tableName) == inProgress \ {tableName}

\* the end of visit: visiting.delete, visited.add, order.push
VisitExit ==
    /\ rstatus = "running"
    /\ stack # <<>>
    /\ ~MoreDeps(Top)
    /\ visiting' = VisitingDelete(visiting, Top.name)
    /\ visited' = visited \cup {Top.name}
    /\ order' = Append(order, Top.name)
    /\ stack' = Pop(stack)
    /\ UNCHANGED <<tables, ti, rstatus, errName, runs, callInput, prevInput, prevOutcome>>
    /\ UNCHANGED <<dvars, pvars>>
    /\ UNCHANGED ovars

\* return order
ResolverReturn ==
    /\ rstatus = "running"
    /\ stack = <<>>
    /\ ti > Len(tables)
    /\ rstatus' = "returned"
    /\ UNCHANGED <<tables, visited, visiting, order, stack, ti, errName,
                   runs, callInput, prevInput, prevOutcome>>
    /\ UNCHANGED <<dvars, pvars>>
    /\ UNCHANGED ovars

\* what a finished call gave its caller
Outcome ==
    IF rstatus = "returned" THEN [kind |-> "order", order |-> order, name |-> NoName]
    ELSE IF rstatus = "thrown" THEN [kind |-> "error", order |-> <<>>, name |-> errName]
    ELSE [kind |-> "none", order |-> <<>>, name |-> NoName]

Finished == rstatus \in {"returned", "thrown"}

\* the entry of determineInsertionOrder(tbls)
ResolverEnter(tbls) ==
    /\ tables' = tbls
    /\ callInput' = tbls
    /\ prevInput' = callInput
    /\ visited' = FreshVisited(visited)
    /\ visiting' = {}
    /\ order' = <<>>
    /\ stack' = <<>>
    /\ ti' = 1
    /\ rstatus' = "running"
    /\ errName' = NoName
    /\ runs' = runs + 1
    /\ prevOutcome' = Outcome

\* a caller runs the resolver (again) on the table list it holds
ResolverCall ==
    /\ rstatus \in {"idle", "returned", "thrown"}
    /\ pc = "resolver"
    /\ runs < MaxRuns
    /\ ResolverEnter(tables)
    /\ UNCHANGED <<dvars, pvars>>
    /\ UNCHANGED ovars

\* a list without the later occurrences of its entries
RECURSIVE FirstOccurrences(_)
FirstOccurrences(list) ==
    IF list = <<>>
    THEN <<>>
    ELSE LET front == FirstOccurrences(SubSeq(list, 1, Len(list) - 1))
             last == list[Len(list)]
         IN  IF \E j \in 1..Len(front) : front[j] = last
             THEN front
             ELSE Append(front, last)

\* the same tables, each depends_on reduced to its first occurrences
Dedup(tbls) ==
    [i \in 1..Len(tbls) |-> [tbls[i] EXCEPT !.depends_on = FirstOccurrences(@)]]

\* a caller runs the resolver on the table list it holds and then on the same
\* tables without the repeated depends_on entries
DedupCall ==
    /\ pc = "dedup"
    /\ \/ /\ rstatus = "idle"
          /\ ResolverEnter(tables)
       \/ /\ Finished
          /\ runs < MaxRuns
          /\ ResolverEnter(Dedup(tables))
    /\ UNCHANGED <<dvars, pvars>>
    /\ UNCHANGED ovars

\* ---------------------------------------------------------------- database
\* the five per-table queries of getTables, the three of getEnhancedTableInfo
TableKinds == {"columns", "pks", "fks", "uniques", "checks"}
EnhKinds == {"tableComment", "columnComments", "triggers"}
Kinds == TableKinds \cup EnhKinds

NoQueries == [k \in Kinds |-> "none"]
Issue(ks) == [k \in Kinds |-> IF k \in ks THEN "pending" ELSE "none"]

NoErr == <<0, "none">>

\* client.release() in a finally block, on the returning and on the throwing path
NoRelease(cl) == cl
ReleaseOnReturn(cl) == [cl EXCEPT ![Len(cl)] = @ + 1]
ReleaseOnThrow(cl) == [cl EXCEPT ![Len(cl)] = @ + 1]

Held == Cardinality({i \in 1..Len(clients) : clients[i] = 0})

\* catch (error) { console.error(...); throw error; } of getTables
GtCatchReturnsPartial(err, res) == [ret |-> "ok", err |-> NoErr, result |-> res]
GtCatch(err, res) == [ret |-> "err", err |-> err, result |-> <<>>]

\* fks.rows of GET_FOREIGN_KEYS for a table whose foreign keys reference the
\* tables of the list names, in the order of the rows
ForeignKeyRows(names) ==
    [i \in 1..Len(names) |-> [column_name |-> i, foreign_table_name |-> names[i]]]

\* the value of reading a property that an object does not have
Undefined == -2

\* obj.field
Property(obj, field) == IF field \in DOMAIN obj THEN obj[field] ELSE Undefined

\* const tableInfo: Table = { name: table_name, ...,
\*   foreign_keys: fks.rows,
\*   depends_on: fks.rows.map(fk => fk.foreign_table_name) }
TableInfo(table_name, fks) ==
    [name |-> table_name,
     foreign_keys |-> fks,
     depends_on |-> [i \in 1..Len(fks) |-> Property(fks[i], "foreign_table_name")]]

\* an operation of the service is entered
DbEnter(op) ==
    /\ dop' = op
    /\ dpc' = "acquire"
    /\ dret' = "none"
    /\ derr' = NoErr
    /\ result' = <<>>
    /\ UNCHANGED <<clients, q, firstFail, listing, queryCount>>

\* new Pool(...) of connect; const client = await this.pool.connect(), and
\* the first query on the client.  Without a pool the call throws.
Acquire ==
    /\ dop # "none"
    /\ dpc = "acquire"
    /\ pool' = (pool \/ dop = "connect")
    /\ \E ok \in BOOLEAN :
        IF ok /\ pool'
        THEN /\ clients' = Append(clients, 0)
             /\ dpc' = CASE dop = "connect" -> "select1"
                         [] dop = "getTables" -> "list"
                         [] OTHER -> "join"
             /\ q' = IF dop = "enhanced" THEN Issue(EnhKinds) ELSE NoQueries
             /\ firstFail' = "none"
             /\ queryCount' = queryCount + (IF dop = "enhanced" THEN 3 ELSE 1)
             /\ UNCHANGED <<dop, dret, derr>>
        ELSE /\ dop' = "none"
             /\ dpc' = "idle"
             /\ dret' = "err"
             /\ derr' = <<0, "pool.connect">>
             /\ UNCHANGED <<clients, q, firstFail, queryCount>>
    /\ UNCHANGED <<listing, result, ops>>
    /\ UNCHANGED <<rvars, pvars>>
    /\ UNCHANGED ovars

\* connect: await client.query('SELECT 1') settles; finally release
ConnectSettle ==
    /\ dop = "connect"
    /\ dpc = "select1"
    /\ \E ok \in BOOLEAN :
        IF ok
        THEN /\ clients' = ReleaseOnReturn(clients)
             /\ dret' = "ok"
             /\ derr' = NoErr
        ELSE /\ clients' = ReleaseOnThrow(clients)
             /\ dret' = "err"
             /\ derr' = <<0, "select1">>
    /\ dop' = "none"
    /\ dpc' = "idle"
    /\ UNCHANGED <<pool, q, firstFail, listing, result, queryCount, ops>>
    /\ UNCHANGED <<rvars, pvars>>
    /\ UNCHANGED ovars

\* getTables: await client.query(QUERIES.GET_TABLES) settles
ListSettle ==
    /\ dop = "getTables"
    /\ dpc = "list"
    /\ \/ \E n \in 1..MaxTables :
            \* the loop issues the five queries of the first table
            /\ listing' = n
            /\ q' = Issue(TableKinds)
            /\ firstFail' = "none"
            /\ queryCount' = queryCount + 5
            /\ dpc' = "join"
            /\ UNCHANGED <<dop, clients, dret, derr, result>>
       \/ \* no table: return result
          /\ listing' = 0
          /\ clients' = ReleaseOnReturn(clients)
          /\ dret' = "ok"
          /\ dop' = "none"
          /\ dpc' = "idle"
          /\ UNCHANGED <<q, firstFail, queryCount, derr, result>>
       \/ \* the query rejects: catch, finally
          /\ clients' = ReleaseOnThrow(clients)
          /\ dret' = GtCatch(<<0, "tables">>, result).ret
          /\ derr' = GtCatch(<<0, "tables">>, result).err
          /\ result' = GtCatch(<<0, "tables">>, result).result
          /\ dop' = "none"
          /\ dpc' = "idle"
          /\ UNCHANGED <<q, firstFail, queryCount, listing>>
    /\ UNCHANGED <<pool, ops>>
    /\ UNCHANGED <<rvars, pvars>>
    /\ UNCHANGED ovars

\* the catalog settles one query of the current Promise.all
QuerySettle ==
    /\ runStatus = "running"
    /\ \E k \in Kinds :
        /\ q[k] = "pending"
        /\ \/ /\ q' = [q EXCEPT ![k] = "ok"]
              /\ UNCHANGED firstFail
           \/ /\ q' = [q EXCEPT ![k] = "failed"]
              /\ firstFail' = IF firstFail = "none" THEN k ELSE firstFail
    /\ UNCHANGED <<pool, dop, dpc, clients, listing, result, dret, derr,
                   queryCount, ops>>
    /\ UNCHANGED <<rvars, pvars>>
    /\ UNCHANGED ovars

AnyResolved(qq, ks) == \E k \in ks : qq[k] = "ok"

\* await Promise.all([...]) goes on once every query of the batch has resolved
AllResolved(qq, ks) == \A k \in ks : qq[k] = "ok"

HasNextTableButLast(built, n) == built + 1 < n

\* for (const { table_name } of tables): a row is left after those built
HasNextTable(built, n) == built < n

\* getTables: Promise.all of the five resolves; tableInfo is built and pushed;
\* the loop goes on to the next table or the function returns
GtJoin ==
    /\ dop = "getTables"
    /\ dpc = "join"
    /\ AllResolved(q, TableKinds)
    /\ \E fks \in DepLists(MaxEdges - EdgeCount(result)) :
           result' = Append(result, TableInfo(Len(result) + 1, ForeignKeyRows(fks)))
    /\ IF HasNextTable(Len(result) + 1, listing)
       THEN /\ q' = Issue(TableKinds)
            /\ firstFail' = "none"
            /\ queryCount' = queryCount + 5
            /\ UNCHANGED <<dop, dpc, clients, dret, derr>>
       ELSE /\ clients' = ReleaseOnReturn(clients)
            /\ dret' = "ok"
            /\ dop' = "none"
            /\ dpc' = "idle"
            /\ UNCHANGED <<q, firstFail, queryCount, derr>>
    /\ UNCHANGED <<pool, listing, ops>>
    /\ UNCHANGED <<rvars, pvars>>
    /\ UNCHANGED ovars

\* getTables: Promise.all rejects with the first rejection; catch, finally
GtReject ==
    /\ dop = "getTables"
    /\ dpc = "join"
    /\ firstFail # "none"
    /\ clients' = ReleaseOnThrow(clients)
    /\ dret' = GtCatch(<<Len(result) + 1, firstFail>>, result).ret
    /\ derr' = GtCatch(<<Len(result) + 1, firstFail>>, result).err
    /\ result' = GtCatch(<<Len(result) + 1, firstFail>>, result).result
    /\ dop' = "none"
    /\ dpc' = "idle"
    /\ UNCHANGED <<pool, q, firstFail, listing, queryCount, ops>>
    /\ UNCHANGED <<rvars, pvars>>
    /\ UNCHANGED ovars

\* getEnhancedTableInfo: Promise.all of the three resolves; finally release
EnhJoin ==
    /\ dop = "enhanced"
    /\ dpc = "join"
    /\ AllResolved(q, EnhKinds)
    /\ clients' = ReleaseOnReturn(clients)
    /\ dret' = "ok"
    /\ dop' = "none"
    /\ dpc' = "idle"
    /\ UNCHANGED <<pool, q, firstFail, listing, result, derr,
                   queryCount, ops>>
    /\ UNCHANGED <<rvars, pvars>>
    /\ UNCHANGED ovars

\* getEnhancedTableInfo: Promise.all rejects; finally release
EnhReject ==
    /\ dop = "enhanced"
    /\ dpc = "join"
    /\ firstFail # "none"
    /\ clients' = ReleaseOnThrow(clients)
    /\ dret' = "err"
    /\ derr' = <<0, firstFail>>
    /\ dop' = "none"
    /\ dpc' = "idle"
    /\ UNCHANGED <<pool, q, firstFail, listing, result, queryCount, ops>>
    /\ UNCHANGED <<rvars, pvars>>
    /\ UNCHANGED ovars

\* a client of the service calls one of its operations
DbInvoke ==
    /\ pc = "service"
    /\ dop = "none"
    /\ ops < MaxOps
    /\ ops' = ops + 1
    /\ \E op \in {"connect", "getTables", "enhanced"} : DbEnter(op)
    /\ UNCHANGED pool
    /\ UNCHANGED <<rvars, pvars>>
    /\ UNCHANGED ovars

\* ---------------------------------------------------------------- command
NoRet == [status |-> "none", hasTables |-> FALSE, hasOrder |-> FALSE]

\* the catch of run: console.error, process.exit(1)
RunFails ==
    /\ runStatus' = "failed"
    /\ pc' = "exit"

\* analyze rejects: its caller gets the error and nothing else
AnalyzeThrows == [status |-> "err", hasTables |-> FALSE, hasOrder |-> FALSE]

\* generateInsertionGuide: tables.find((t) => t.name === tableName)! is
\* undefined for a name that is no table of the list, and table.name throws
GuideThrows(tbls, ord) == \E i \in 1..Len(ord) : FindIndex(tbls, ord[i]) = 0

\* run: parseConfig, then generateLLMsTxt or generateInsertionGuide, which
\* call analyze, which awaits databaseService.connect
RunStart ==
    /\ pc = "start"
    /\ IF cfgOk
       THEN /\ DbEnter("connect")
            /\ pc' = "connect"
            /\ UNCHANGED runStatus
       ELSE /\ RunFails
            /\ UNCHANGED <<dop, dpc, dret, derr, result, clients, q, firstFail,
                           listing, queryCount>>
    /\ UNCHANGED <<pool, ops, llmtxt, cfgOk, files, analyzeRet, insertionOrder>>
    /\ UNCHANGED rvars
    /\ UNCHANGED ovars

\* analyze: connect has settled; await databaseService.getTables
AfterConnect ==
    /\ pc = "connect"
    /\ dop = "none"
    /\ dret # "none"
    /\ IF dret = "ok"
       THEN /\ DbEnter("getTables")
            /\ pc' = "getTables"
            /\ UNCHANGED <<runStatus, analyzeRet>>
       ELSE /\ RunFails
            /\ analyzeRet' = AnalyzeThrows
            /\ UNCHANGED <<dop, dpc, dret, derr, result, clients, q, firstFail,
                           listing, queryCount>>
    /\ UNCHANGED <<pool, ops, llmtxt, cfgOk, files, insertionOrder>>
    /\ UNCHANGED rvars
    /\ UNCHANGED ovars

\* if (!config.llmtxt): flag is the llmtxt of the config analyze was given
\* (generateInsertionGuide passes {...config, llmtxt: false}, and run calls
\* it only when options.llmtxt is not set)
SkipsOrderNever(flag) == FALSE
SkipsOrder(flag) == flag

\* analyze: getTables has settled; if (!config.llmtxt) determineInsertionOrder
AfterGetTables ==
    /\ pc = "getTables"
    /\ dop = "none"
    /\ dret # "none"
    /\ IF dret = "err"
       THEN /\ RunFails
            /\ analyzeRet' = AnalyzeThrows
            /\ UNCHANGED rvars
       ELSE IF ~SkipsOrder(llmtxt)
       THEN /\ ResolverEnter(result)
            /\ pc' = "order"
            /\ UNCHANGED <<runStatus, analyzeRet>>
       ELSE /\ tables' = result
            /\ analyzeRet' = [status |-> "ok", hasTables |-> TRUE, hasOrder |-> FALSE]
            /\ pc' = "llms"
            /\ UNCHANGED <<visited, visiting, order, stack, ti, rstatus, errName,
                           runs, callInput, prevInput, prevOutcome, runStatus>>
    /\ UNCHANGED <<llmtxt, cfgOk, files, insertionOrder>>
    /\ UNCHANGED dvars
    /\ UNCHANGED ovars

\* analyze: determineInsertionOrder has returned or thrown
AfterOrder ==
    /\ pc = "order"
    /\ Finished
    /\ IF rstatus = "thrown"
       THEN /\ RunFails
            /\ analyzeRet' = AnalyzeThrows
            /\ UNCHANGED insertionOrder
       ELSE /\ insertionOrder' = order
            /\ pc' = "save"
            /\ UNCHANGED <<runStatus, analyzeRet>>
    /\ UNCHANGED <<llmtxt, cfgOk, files>>
    /\ UNCHANGED <<rvars, dvars>>
    /\ UNCHANGED ovars

\* analyze: await outputService.saveAnalysisToFile; return
SaveAnalysis ==
    /\ pc = "save"
    /\ \/ /\ files' = files \cup {"db-analysis"}
          /\ analyzeRet' = [status |-> "ok", hasTables |-> TRUE, hasOrder |-> TRUE]
          /\ pc' = "guide"
          /\ UNCHANGED runStatus
       \/ /\ RunFails
          /\ analyzeRet' = AnalyzeThrows
          /\ UNCHANGED files
    /\ UNCHANGED <<llmtxt, cfgOk, insertionOrder>>
    /\ UNCHANGED <<rvars, dvars>>
    /\ UNCHANGED ovars

QueriesForReferences(table) == <<"GET_TABLE_REFERENCES">>

\* the catalog queries sent while the text for one table is built: the guide
\* and the digest read the Table and call nothing of the DatabaseService
QueriesFor(table) == <<>>

\* the number of catalog queries sent while the text for the tables is built
RECURSIVE QueriesSent(_)
QueriesSent(tbls) ==
    IF tbls = <<>>
    THEN 0
    ELSE Len(QueriesFor(Head(tbls))) + QueriesSent(Tail(tbls))

\* generateInsertionGuide builds the guide; run prints it
RenderGuide ==
    /\ pc = "guide"
    /\ IF GuideThrows(tables, insertionOrder)
       THEN RunFails
       ELSE /\ runStatus' = "ok"
            /\ pc' = "exit"
    /\ queryCount' = queryCount + QueriesSent(tables)
    /\ UNCHANGED <<llmtxt, cfgOk, files, analyzeRet, insertionOrder>>
    /\ UNCHANGED <<pool, dop, dpc, clients, q, firstFail, listing, result,
                   dret, derr, ops>>
    /\ UNCHANGED rvars
    /\ UNCHANGED ovars

\* generateTableSummary: the number printed as "Referenced by N tables"
\* (the PK(...) part is left out)
referencedBy(table) == Len(table.foreign_keys)

\* the lines of "## Core Tables": coreTables, one line for each
CoreTables(tbls) ==
    LET IsCore(table) == Len(table.foreign_keys) > 0
        coreTables == SelectSeq(tbls, IsCore)
    IN  [i \in 1..Len(coreTables) |->
            [name |-> coreTables[i].name,
             referencedBy |-> referencedBy(coreTables[i])]]

\* outputService.generateLLMsTxt: build the digest, writeFile
WriteLLMsTxt ==
    /\ pc = "llms"
    /\ \/ /\ files' = files \cup {"llmstxt"}
          /\ core' = CoreTables(tables)
          /\ runStatus' = "ok"
          /\ pc' = "exit"
       \/ /\ RunFails
          /\ UNCHANGED <<files, core>>
    /\ queryCount' = queryCount + QueriesSent(tables)
    /\ UNCHANGED <<llmtxt, cfgOk, analyzeRet, insertionOrder>>
    /\ UNCHANGED <<pool, dop, dpc, clients, q, firstFail, listing, result,
                   dret, derr, ops>>
    /\ UNCHANGED rvars
    /\ UNCHANGED <<cpc, colRows, columns, required>>

\* ---------------------------------------------------------------- columns
\* a string that the code takes apart or builds is the sequence of its
\* characters
CharacterVarying ==
    <<"c","h","a","r","a","c","t","e","r"," ","v","a","r","y","i","n","g">>

Numeric == <<"n","u","m","e","r","i","c">>

Integer == <<"i","n","t","e","g","e","r">>

\* SQL NULL as node-postgres delivers it; a value v that is there is Some(v)
Null == <<>>

Some(v) == <<v>>

\* numeric_precision and numeric_scale of a row: the scale is NULL when the
\* precision is
NumericFacets == {<<Null, Null>>, <<Some(10), Null>>, <<Some(10), Some(2)>>}

\* character_maximum_length of a row: NULL unless the type is a character
\* type
Lengths(t) == IF t = CharacterVarying THEN {Null, Some(255)} ELSE {Null}

\* the rows of GET_COLUMNS, less column_name: character_maximum_length and
\* numeric_precision are positive when they are not NULL
CatalogColumns ==
    UNION {{[data_type |-> t,
             is_nullable |-> n,
             column_default |-> d,
             character_maximum_length |-> l,
             numeric_precision |-> f[1],
             numeric_scale |-> f[2]] :
                n \in {"YES", "NO"},
                d \in {Null, Some("0")},
                l \in Lengths(t),
                f \in NumericFacets} :
           t \in {CharacterVarying, Numeric, Integer}}

\* the row of the column at ordinal_position i
ColumnRow(i, c) ==
    [column_name |-> i,
     data_type |-> c.data_type,
     is_nullable |-> c.is_nullable,
     column_default |-> c.column_default,
     character_maximum_length |-> c.character_maximum_length,
     numeric_precision |-> c.numeric_precision,
     numeric_scale |-> c.numeric_scale]

\* columns.rows of a table: the rows of its columns, ORDER BY
\* c.ordinal_position
ColumnRows(f) == [i \in DOMAIN f |-> ColumnRow(i, f[i])]

LowerCase ==
    <<"a","b","c","d","e","f","g","h","i","j","k","l","m",
      "n","o","p","q","r","s","t","u","v","w","x","y","z">>

UpperCase ==
    <<"A","B","C","D","E","F","G","H","I","J","K","L","M",
      "N","O","P","Q","R","S","T","U","V","W","X","Y","Z">>

\* String.prototype.toUpperCase, on one character and on a string
UpperChar(c) ==
    IF \E i \in DOMAIN LowerCase : LowerCase[i] = c
    THEN UpperCase[CHOOSE i \in DOMAIN LowerCase : LowerCase[i] = c]
    ELSE c

toUpperCase(str) == [i \in 1..Len(str) |-> UpperChar(str[i])]

DigitChars == <<"0","1","2","3","4","5","6","7","8","9">>

\* the decimal digits of a natural number
RECURSIVE Digits(_)
Digits(n) ==
    IF n < 10
    THEN <<DigitChars[n + 1]>>
    ELSE Digits(n \div 10) \o <<DigitChars[(n % 10) + 1]>>

\* ${value} of a template literal, the value a number or null
Interpolate(value) ==
    IF value = Null THEN <<"n","u","l","l">> ELSE Digits(value[1])

\* if (value): null and 0 are falsy
Truthy(value) == value # Null /\ value[1] # 0

getFullTypeBothSuffixes(column) ==
    LET type == toUpperCase(column.data_type)
        withLength ==
            IF Truthy(column.character_maximum_length)
            THEN type \o <<"(">> \o Interpolate(column.character_maximum_length)
                      \o <<")">>
            ELSE type
    IN  IF Truthy(column.numeric_precision)
        THEN withLength \o <<"(">> \o Interpolate(column.numeric_precision)
                 \o <<",">> \o Interpolate(column.numeric_scale) \o <<")">>
        ELSE withLength

\* DatabaseService.getFullType
getFullType(column) ==
    LET type == toUpperCase(column.data_type)
    IN  IF Truthy(column.character_maximum_length)
        THEN type \o <<"(">> \o Interpolate(column.character_maximum_length)
                 \o <<")">>
        ELSE IF Truthy(column.numeric_precision)
        THEN type \o <<"(">> \o Interpolate(column.numeric_precision)
                 \o <<",">> \o Interpolate(column.numeric_scale) \o <<")">>
        ELSE type

\* DatabaseService.mapColumns (constraints is always the empty list)
mapColumns(rows) ==
    [i \in 1..Len(rows) |->
        [name |-> rows[i].column_name,
         type |-> getFullType(rows[i]),
         nullable |-> rows[i].is_nullable = "YES",
         default_value |-> rows[i].column_default]]

IsRequiredWhateverDefault(col) == ~col.nullable

\* the filter under "Required columns:" of the guide
IsRequired(col) == ~col.nullable /\ col.default_value = Null

\* the lines "- name (type)" under "Required columns:"
RequiredLines(cols) ==
    LET kept == SelectSeq(cols, IsRequired)
    IN  [i \in 1..Len(kept) |-> [name |-> kept[i].name, type |-> kept[i].type]]

\* getTables: columns: this.mapColumns(columns.rows)
MapColumns ==
    /\ pc = "columns"
    /\ cpc = "rows"
    /\ columns' = mapColumns(colRows)
    /\ cpc' = "mapped"
    /\ UNCHANGED <<core, colRows, required>>
    /\ UNCHANGED <<rvars, dvars, pvars>>

\* generateInsertionGuide: the required columns of the table
ListRequired ==
    /\ pc = "columns"
    /\ cpc = "mapped"
    /\ required' = RequiredLines(columns)
    /\ cpc' = "listed"
    /\ UNCHANGED <<core, colRows, columns>>
    /\ UNCHANGED <<rvars, dvars, pvars>>

\* ---------------------------------------------------------------- specifications
InitResolverVars ==
    /\ visited = {}
    /\ visiting = {}
    /\ order = <<>>
    /\ stack = <<>>
    /\ ti = 1
    /\ rstatus = "idle"
    /\ errName = NoName
    /\ runs = 0
    /\ callInput = <<>>
    /\ prevInput = <<>>
    /\ prevOutcome = [kind |-> "none", order |-> <<>>, name |-> NoName]

InitDbVars ==
    /\ pool = FALSE
    /\ dop = "none"
    /\ dpc = "idle"
    /\ clients = <<>>
    /\ q = NoQueries
    /\ firstFail = "none"
    /\ listing = 0
    /\ result = <<>>
    /\ dret = "none"
    /\ derr = NoErr
    /\ queryCount = 0
    /\ ops = 0

InitReportVars ==
    /\ core = <<>>
    /\ cpc = "idle"
    /\ colRows = <<>>
    /\ columns = <<>>
    /\ required = <<>>

InitRunVars ==
    /\ files = {}
    /\ runStatus = "running"
    /\ analyzeRet = NoRet
    /\ insertionOrder = <<>>

\* one run of the analyze command
Init ==
    /\ tables = <<>>
    /\ InitResolverVars
    /\ InitDbVars
    /\ InitRunVars
    /\ InitReportVars
    /\ pc = "start"
    /\ llmtxt \in BOOLEAN
    /\ cfgOk \in BOOLEAN

Next ==
    \/ RunStart
    \/ Acquire
    \/ ConnectSettle
    \/ AfterConnect
    \/ ListSettle
    \/ QuerySettle
    \/ GtJoin
    \/ GtReject
    \/ AfterGetTables
    \/ ForEachStep
    \/ DepStep
    \/ VisitExit
    \/ ResolverReturn
    \/ AfterOrder
    \/ SaveAnalysis
    \/ RenderGuide
    \/ WriteLLMsTxt

Spec == Init /\ [][Next]_vars

\* the operations of DatabaseService, called one after the other in any order
InitDb ==
    /\ tables = <<>>
    /\ InitResolverVars
    /\ InitDbVars
    /\ InitRunVars
    /\ InitReportVars
    /\ pc = "service"
    /\ llmtxt = FALSE
    /\ cfgOk = TRUE

NextDb ==
    \/ DbInvoke
    \/ Acquire
    \/ ConnectSettle
    \/ ListSettle
    \/ QuerySettle
    \/ GtJoin
    \/ GtReject
    \/ EnhJoin
    \/ EnhReject

SpecDb == InitDb /\ [][NextDb]_vars

\* determineInsertionOrder, called on any table list, once or again
InitResolver ==
    /\ tables \in TableLists
    /\ InitResolverVars
    /\ InitDbVars
    /\ InitRunVars
    /\ InitReportVars
    /\ pc = "resolver"
    /\ llmtxt = FALSE
    /\ cfgOk = TRUE

NextResolver == ResolverCall \/ ForEachStep \/ DepStep \/ VisitExit \/ ResolverReturn

SpecResolver == InitResolver /\ [][NextResolver]_vars

\* the same, a call once entered running on to its end: JavaScript runs the
\* synchronous function to completion
SpecResolverFair ==
    /\ InitResolver
    /\ [][NextResolver]_vars
    /\ WF_vars(ForEachStep \/ DepStep \/ VisitExit \/ ResolverReturn)

\* determineInsertionOrder on any table list and then on the list without
\* its repeated depends_on entries
InitDedup ==
    /\ tables \in TableLists
    /\ InitResolverVars
    /\ InitDbVars
    /\ InitRunVars
    /\ InitReportVars
    /\ pc = "dedup"
    /\ llmtxt = FALSE
    /\ cfgOk = TRUE

NextDedup == DedupCall \/ ForEachStep \/ DepStep \/ VisitExit \/ ResolverReturn

SpecDedup == InitDedup /\ [][NextDedup]_vars

\* the columns of one table, from the catalog rows to the guide
InitColumns ==
    /\ tables = <<>>
    /\ InitResolverVars
    /\ InitDbVars
    /\ InitRunVars
    /\ pc = "columns"
    /\ llmtxt = FALSE
    /\ cfgOk = TRUE
    /\ core = <<>>
    /\ cpc = "rows"
    /\ \E n \in 1..MaxCols :
          \E f \in [1..n -> CatalogColumns] : colRows = ColumnRows(f)
    /\ columns = <<>>
    /\ required = <<>>

NextColumns == MapColumns \/ ListRequired

SpecColumns == InitColumns /\ [][NextColumns]_vars

\* ---------------------------------------------------------------- graph
\* the depends_on edges between tables of the list
Edges(tbls) ==
    {e \in TableNames(tbls) \X TableNames(tbls) : e[2] \in Range(DepsOf(tbls, e[1]))}

\* one more edge after a path of R
Compose(R, E, N) ==
    {p \in N \X N : \E b \in N : <<p[1], b>> \in R /\ <<b, p[2]>> \in E}

RECURSIVE Closure(_, _, _, _)
Closure(R, E, N, k) ==
    IF k = 0 THEN R ELSE Closure(R \cup Compose(R, E, N), E, N, k - 1)

\* a reaches b through one or more edges
Reach(tbls) == Closure(Edges(tbls), Edges(tbls), TableNames(tbls), Len(tbls))

\* two or more tables of the list form a cycle
HasMultiCycle(tbls) ==
    LET R == Reach(tbls)
    IN  \E p \in R : p[1] # p[2] /\ <<p[2], p[1]>> \in R

\* the tables whose depends_on holds their own name
SelfRefNames(tbls) == {n \in TableNames(tbls) : <<n, n>> \in Edges(tbls)}

NoCycle(tbls) ==
    LET R == Reach(tbls)
    IN  \A n \in TableNames(tbls) : <<n, n>> \notin R

Indexes(s, x) == {i \in 1..Len(s) : s[i] = x}

\* ---------------------------------------------------------------- claims
\* C1: when determineInsertionOrder returns normally, every dependency D of
\* a table T that is itself a table of the list stands in the returned order
\* at a strictly smaller index than T.
C1_DepsBefore ==
    rstatus = "returned" =>
        \A i \in 1..Len(tables) :
            \A D \in Range(tables[i].depends_on) \cap TableNames(tables) :
                /\ Indexes(order, D) # {}
                /\ Indexes(order, tables[i].name) # {}
                /\ \A a \in Indexes(order, D) :
                       \A b \in Indexes(order, tables[i].name) : a < b

\* a returned order that had to move a later table in front of an earlier one
C1_Witness ==
    /\ rstatus = "returned"
    /\ \E i \in 1..Len(tables) :
           \E D \in Range(tables[i].depends_on) \cap TableNames(tables) :
               FindIndex(tables, D) > i

\* C2: on a list with unique names and no cycle the returned order is a
\* permutation of the input names: same length, each name once, no other.
C2_Permutation ==
    (rstatus = "returned" /\ NoCycle(tables)) =>
        /\ Len(order) = Len(tables)
        /\ Range(order) = TableNames(tables)
        /\ \A n \in TableNames(tables) : Cardinality(Indexes(order, n)) = 1

\* C3: a depends_on entry that names no table of the list is skipped: it
\* raises no error and its name is never appended to the order.
C3_OutsideSkipped ==
    /\ \A i \in 1..Len(order) : order[i] \in TableNames(tables)
    /\ rstatus = "thrown" => errName \in TableNames(tables)

\* C4: when two or more tables of the list form a cycle the call returns no
\* order: it throws, and the error names the table that was revisited while
\* still in progress.
C4_CycleThrows ==
    (Finished /\ HasMultiCycle(tables)) =>
        /\ rstatus = "thrown"
        /\ Outcome.kind = "error"
        /\ stack # <<>>
        /\ errName = DepsOf(tables, Top.name)[Top.di]
        /\ errName \in visiting

\* a throw on a cycle of two or more tables, none of them self-referencing
C4_Witness ==
    /\ rstatus = "thrown"
    /\ HasMultiCycle(tables)
    /\ SelfRefNames(tables) = {}
    /\ errName # Top.name

\* C5 as stated: a table that lists itself in depends_on does not trigger
\* the error, and the returned order contains it.
C5_SelfRefReturns ==
    (Finished /\ SelfRefNames(tables) # {}) =>
        /\ rstatus = "returned"
        /\ SelfRefNames(tables) \subseteq Range(order)

\* C5 amended: a table that lists itself in depends_on does trigger the
\* circular-dependency error: no order is returned, and unless two or more
\* tables also form a cycle the error names a self-referencing table.
C5_SelfRefThrows ==
    (Finished /\ SelfRefNames(tables) # {}) =>
        /\ rstatus = "thrown"
        /\ Outcome.kind = "error"
        /\ ~HasMultiCycle(tables) => errName \in SelfRefNames(tables)

\* a throw whose only cause is a self-reference
C5_Witness ==
    /\ rstatus = "thrown"
    /\ SelfRefNames(tables) # {}
    /\ ~HasMultiCycle(tables)
    /\ errName = Top.name

\* C6 as stated: a run of the analyze command that ends in failure has
\* written no output file.
C6_NoFileOnFailure == runStatus = "failed" => files = {}

\* C7 as stated: when determineInsertionOrder throws inside analyze, the
\* caller of analyze still receives the tables.
C7_TablesSurviveCycle ==
    (pc = "exit" /\ rstatus = "thrown") =>
        /\ analyzeRet.status # "none"
        /\ analyzeRet.hasTables

\* a catalog query of getTables has rejected
GtQueryFailed == firstFail \in TableKinds \/ derr = <<0, "tables">>

\* C8: once a catalog query of getTables has failed, getTables never resolves
\* with a table list: it rejects with the error of that query, hands out no
\* partial list, has issued every query once only, and analyze holds no
\* table list, computes no order and writes no file.
C8_CatalogFailurePropagates ==
    GtQueryFailed =>
        /\ dret # "ok"
        /\ dop = "none" =>
              /\ dret = "err"
              /\ result = <<>>
              /\ derr[2] \in TableKinds => (derr[2] = firstFail /\ q[derr[2]] = "failed")
              /\ queryCount = 2 + 5 * derr[1]
        /\ dop = "getTables" => queryCount = 2 + 5 * (Len(result) + 1)
        /\ tables = <<>>
        /\ analyzeRet.hasTables = FALSE
        /\ rstatus = "idle"
        /\ insertionOrder = <<>>
        /\ files = {}

\* a run that failed on the foreign-key query of the second table, after the
\* first table had been built and while another query had failed too
C8_Witness ==
    /\ pc = "exit"
    /\ runStatus = "failed"
    /\ derr = <<2, "fks">>
    /\ \E k \in TableKinds : k # "fks" /\ q[k] = "failed"

\* C9: every client pool.connect() gave out is released exactly once, on the
\* returning and on the throwing path of connect, getTables and
\* getEnhancedTableInfo: between operations no client is held.
C9_ClientsReleased ==
    /\ \A i \in 1..Len(clients) : clients[i] <= 1
    /\ \A i \in 1..(Len(clients) - 1) : clients[i] = 1
    /\ dop = "none" => (Held = 0 /\ \A i \in 1..Len(clients) : clients[i] = 1)
    /\ Held <= 1

\* two operations have ended, the last one getEnhancedTableInfo by a throw
C9_Witness ==
    /\ dop = "none"
    /\ dret = "err"
    /\ derr[2] \in EnhKinds
    /\ Len(clients) >= 2

\* C10: a second call on the same table list ends as the first did (the same
\* order or the same error), and a call leaves its argument as it found it.
C10_Deterministic ==
    Finished =>
        /\ tables = callInput
        /\ runs >= 2 => Outcome = prevOutcome

\* a second call that returned an order of several tables
C10_Witness ==
    /\ rstatus = "returned"
    /\ runs = 2
    /\ Len(order) >= 2
    /\ \E i \in 1..Len(tables) : tables[i].depends_on # <<>>

\* C11: analyze leaves insertionOrder out of its result, and skips
\* determineInsertionOrder and saveAnalysisToFile, exactly when the
\* configuration asks for the digest; every other successful call of analyze
\* returns an insertionOrder.
C11_OrderUnlessDigest ==
    /\ llmtxt => (rstatus = "idle" /\ runs = 0 /\ "db-analysis" \notin files)
    /\ analyzeRet.status = "ok" =>
          /\ analyzeRet.hasTables
          /\ analyzeRet.hasOrder = ~llmtxt
          /\ ~llmtxt => /\ rstatus = "returned"
                        /\ insertionOrder = order
                        /\ "db-analysis" \in files

\* analyze has returned the tables of a schema without an order
C11_Witness ==
    /\ analyzeRet.status = "ok"
    /\ llmtxt
    /\ ~analyzeRet.hasOrder
    /\ Len(tables) >= 1


\* the number of opening parentheses of a string
OpenCount(str) == Cardinality({k \in 1..Len(str) : str[k] = "("})

\* C12: the type of a mapped column is the upper-cased data_type followed by
\* "(length)" when character_maximum_length is not null, otherwise by
\* "(precision,scale)" when numeric_precision is not null, otherwise by
\* nothing; it never carries two suffixes; {character varying, 255} gives
\* "CHARACTER VARYING(255)", {numeric, 10, 2} gives "NUMERIC(10,2)" and
\* {integer} gives "INTEGER".
C12_FullType ==
    cpc \in {"mapped", "listed"} =>
        /\ Len(columns) = Len(colRows)
        /\ \A i \in 1..Len(colRows) :
              LET row == colRows[i]
                  type == columns[i].type
                  base == toUpperCase(row.data_type)
                  length == row.character_maximum_length
                  precision == row.numeric_precision
                  scale == row.numeric_scale
              IN  /\ length # Null =>
                        type = base \o <<"(">> \o Digits(length[1]) \o <<")">>
                  /\ (length = Null /\ precision # Null) =>
                        type = base \o <<"(">> \o Digits(precision[1]) \o <<",">>
                                  \o (IF scale = Null THEN <<"n","u","l","l">>
                                      ELSE Digits(scale[1]))
                                  \o <<")">>
                  /\ (length = Null /\ precision = Null) => type = base
                  /\ OpenCount(type) <= 1
                  /\ (row.data_type = CharacterVarying /\ length = Some(255)) =>
                        type = <<"C","H","A","R","A","C","T","E","R"," ",
                                 "V","A","R","Y","I","N","G","(","2","5","5",")">>
                  /\ (/\ row.data_type = Numeric
                      /\ length = Null
                      /\ precision = Some(10)
                      /\ scale = Some(2)) =>
                        type = <<"N","U","M","E","R","I","C","(","1","0",",","2",")">>
                  /\ (row.data_type = Integer /\ length = Null /\ precision = Null) =>
                        type = <<"I","N","T","E","G","E","R">>

\* a numeric(10,2) column mapped next to a column whose row has both a length
\* and a precision
C12_Witness ==
    /\ cpc = "mapped"
    /\ Len(columns) = 2
    /\ columns[1].type = <<"N","U","M","E","R","I","C","(","1","0",",","2",")">>
    /\ colRows[2].character_maximum_length # Null
    /\ colRows[2].numeric_precision # Null
    /\ OpenCount(columns[2].type) = 1

\* the column of that name has a line under "Required columns:"
Listed(name) == \E k \in 1..Len(required) : required[k].name = name

\* C13: a column is listed under "Required columns" exactly when it is not
\* nullable and its default value is null: a non-nullable column of default
\* "0" is not listed, and no nullable column is.
C13_RequiredColumns ==
    cpc = "listed" =>
        \A i \in 1..Len(columns) :
            LET col == columns[i]
            IN  /\ Listed(col.name) <=>
                      (col.nullable = FALSE /\ col.default_value = Null)
                /\ (col.nullable = FALSE /\ col.default_value = Some("0")) =>
                      ~Listed(col.name)
                /\ col.nullable => ~Listed(col.name)
                /\ col.nullable = (colRows[i].is_nullable = "YES")

\* a required column listed, a non-nullable column of default "0" left out
C13_Witness ==
    /\ cpc = "listed"
    /\ Len(columns) = 2
    /\ ~columns[1].nullable /\ columns[1].default_value = Null
    /\ ~columns[2].nullable /\ columns[2].default_value = Some("0")
    /\ Len(required) = 1
    /\ required[1].name = 1


\* C17: every Table built by getTables has as many depends_on entries as
\* foreign_keys entries, and depends_on[i] is foreign_keys[i].referenced_table.
C17_DependsOnMirrorsForeignKeys ==
    \A t \in 1..Len(result) :
        LET table == result[t]
        IN  /\ Len(table.depends_on) = Len(table.foreign_keys)
            /\ \A i \in 1..Len(table.foreign_keys) :
                  table.depends_on[i] =
                      Property(table.foreign_keys[i], "referenced_table")


\* the number of other tables of the list with a foreign key that references
\* the table of that name
RefCount(tbls, name) ==
    Cardinality({i \in 1..Len(tbls) :
        /\ tbls[i].name # name
        /\ \E k \in 1..Len(tbls[i].foreign_keys) :
              tbls[i].foreign_keys[k].foreign_table_name = name})

\* C14: the Core Tables section of a written digest lists the tables in
\* descending order of their reference count.
C14_CoreTablesDescending ==
    "llmstxt" \in files =>
        \A a \in 1..Len(core) : \A b \in 1..Len(core) :
            a < b => RefCount(tables, core[a].name) >= RefCount(tables, core[b].name)

\* C15: the number shown for a core table as "Referenced by N tables" is the
\* number of other tables of the list with a foreign key that references it.
C15_ShownCountIsRefCount ==
    "llmstxt" \in files =>
        \A a \in 1..Len(core) :
            core[a].referencedBy = RefCount(tables, core[a].name)


\* getTables has returned the table list to analyze
TablesReturned ==
    \/ pc = "getTables" /\ dop = "none" /\ dret = "ok"
    \/ pc \in {"order", "save", "guide", "llms"}

\* C16: once getTables has returned the table list, no step of the run sends
\* a catalog query: the number of queries sent, the queries in flight and the
\* clients held stay as they are to the end of the run.
C16_NoQueryAfterGetTables ==
    [][TablesReturned =>
          /\ queryCount' = queryCount
          /\ q' = q
          /\ clients' = clients
          /\ pool' = pool]_vars

\* a digest written for a schema of two tables, the queries of connect and
\* getTables the only ones sent
C16_Witness ==
    /\ pc = "exit"
    /\ "llmstxt" \in files
    /\ Len(tables) = 2
    /\ queryCount = 2 + 5 * Len(tables)


\* C18: repeated names in a depends_on list change nothing: a returned order
\* holds no name twice, and the call on the tables with each depends_on
\* reduced to its first occurrences ends as the call on the tables did, with
\* the same order or the same error.
C18_RepeatsIdempotent ==
    /\ rstatus = "returned" =>
          \A a \in 1..Len(order) : \A b \in 1..Len(order) :
              order[a] = order[b] => a = b
    /\ (Finished /\ runs >= 2) =>
          /\ callInput = Dedup(prevInput)
          /\ Outcome = prevOutcome

\* the second call has returned an order of two tables; the first was made
\* on a list with a repeated depends_on entry
C18_Witness ==
    /\ rstatus = "returned"
    /\ runs = 2
    /\ prevInput # callInput
    /\ prevOutcome.kind = "order"
    /\ Len(order) >= 2


\* C19: the list getTables returns holds one Table for each name of the
\* enumeration, in the order of the enumeration (the i-th name is i), however
\* the fetches of a table settle; while it is built the list is a prefix of
\* that.
C19_EnumerationOrderKept ==
    /\ \A i \in 1..Len(result) : result[i].name = i
    /\ dop = "getTables" => Len(result) <= listing
    /\ TablesReturned => Len(result) = listing

\* getTables has returned two tables
C19_Witness ==
    /\ pc = "getTables"
    /\ dop = "none"
    /\ dret = "ok"
    /\ listing = 2
    /\ Len(result) = 2

\* C20: the five fetches of a table are issued together, and a Table is
\* appended to the result only in a step before which all five of its fetches
\* had resolved.
C20_JoinBeforeAppend ==
    [][/\ (\E k \in TableKinds : q[k] # "pending" /\ q'[k] = "pending") =>
              \A j \in TableKinds : q'[j] = "pending"
       /\ Len(result') > Len(result) =>
              /\ Len(result') = Len(result) + 1
              /\ \A k \in TableKinds : q[k] = "ok"]_vars

\* one Table is built and the five fetches of the next table are in flight
C20_Witness ==
    /\ dop = "getTables"
    /\ Len(result) = 1
    /\ \A k \in TableKinds : q[k] = "pending"


\* C21: the client of getTables or getEnhancedTableInfo is released only
\* after every query issued on it has settled: once the client acquired last
\* is released, none of its queries is pending.
C21_ReleaseAfterSettle ==
    (Len(clients) > 0 /\ clients[Len(clients)] > 0) =>
        \A k \in Kinds : q[k] # "pending"


\* C22: a cycle is reported only when there is one: the name in the error is
\* a table of the list that reaches itself through one or more depends_on
\* edges between tables of the list, and on a list without such a path the
\* call never throws.
C22_ThrowOnlyOnCycle ==
    rstatus = "thrown" =>
        LET R == Reach(tables)
        IN  /\ errName \in TableNames(tables)
            /\ <<errName, errName>> \in R
            /\ \E n \in TableNames(tables) : <<n, n>> \in R

\* a throw that names the first table of a cycle of two, met again from the
\* second
C22_Witness ==
    /\ rstatus = "thrown"
    /\ Len(stack) = 2
    /\ errName = stack[1].name
    /\ errName # Top.name
    /\ <<errName, Top.name>> \in Edges(tables)
    /\ <<Top.name, errName>> \in Edges(tables)


\* C23: at every step of determineInsertionOrder no name is both in visiting
\* and in visited, visiting is the set of the names on the recursion stack,
\* order holds the visited names and each of them once, and visiting is empty
\* when the call has returned.
C23_SetsAgree ==
    /\ visiting \cap visited = {}
    /\ visiting = {stack[i].name : i \in 1..Len(stack)}
    /\ Range(order) = visited
    /\ Len(order) = Cardinality(visited)
    /\ rstatus = "returned" => visiting = {}

\* two visits open and one name done
C23_Witness ==
    /\ rstatus = "running"
    /\ Len(stack) = 2
    /\ Cardinality(visiting) = 2
    /\ Len(order) = 1


\* C24: every call of determineInsertionOrder ends, by returning an order or
\* by throwing the circular-dependency error, and within a call the loop over
\* a name's depends_on list is entered at most once: a visit is opened only
\* for a name that is neither done nor in progress, and no name leaves the
\* done set.
C24_Terminates ==
    /\ (rstatus = "running") ~> Finished
    /\ [][/\ Len(stack') > Len(stack) =>
                 /\ Len(stack') = Len(stack) + 1
                 /\ stack'[Len(stack')].name \notin visited \cup visiting
          /\ runs' = runs => visited \subseteq visited']_vars

\* a call has returned on a list with a repeated reference to a name outside
\* the list
C24_Witness ==
    /\ rstatus = "returned"
    /\ \E i \in 1..Len(tables) :
          /\ Len(tables[i].depends_on) = 2
          /\ \A k \in 1..2 : tables[i].depends_on[k] \notin TableNames(tables)
    /\ Len(order) > Len(tables)

====
